---- MODULE Spec2Model ----
\* A model of server.js: the document-chat backend (upload -> chunk -> embed ->
\* vector store; chat -> retrieve -> LLM -> bounded conversation history).
\*
\* One Node.js process, one event loop: every action below is one synchronous
\* run of JavaScript between two awaits.  The external services (Pinecone
\* index management, Pinecone inference, the Pinecone namespace API, the Groq
\* completion endpoint) answer nondeterministically.
EXTENDS Integers, Sequences, FiniteSets, TLC

\* ---------------------------------------------------------------- bounds

\* Request slots that may be in flight at the same time.
Reqs == {1, 2}
\* Requests the server receives in one run of Spec.
MaxRequests == 2
\* Chat requests the server receives in one run of ChatSpec.
MaxChats == 11

\* ------------------------------------------------------------- constants

IndexName == "doc-chat-index"
\* The 7-day retrieval window of processQuery, in milliseconds.
Window == 604800000
\* Turns kept per session.
MaxHistory == 10
\* Characters of the question, and of the response, kept in a turn.
MaxTurnQuestion == 500
MaxTurnAnswer == 2000
\* Longest question /chat accepts.
MaxQuestion == 1000
TopK == 5

\* --------------------------------------------------------------- strings
\* A JavaScript string is kept run-length encoded: a sequence of runs
\* [ch, n] with n > 0 and adjacent runs of different characters, so that two
\* strings are equal exactly when their encodings are.

Str(c, n) == IF n = 0 THEN <<>> ELSE <<[ch |-> c, n |-> n]>>

RECURSIVE StrLen(_)
StrLen(s) == IF s = <<>> THEN 0 ELSE Head(s).n + StrLen(Tail(s))

\* s.slice(0, k)
RECURSIVE Slice(_, _)
Slice(s, k) ==
    IF s = <<>> \/ k <= 0 THEN <<>>
    ELSE IF Head(s).n >= k THEN <<[ch |-> Head(s).ch, n |-> k]>>
    ELSE <<Head(s)>> \o Slice(Tail(s), k - Head(s).n)

\* s.trim(): the only whitespace character of the alphabet is " ".
Trim(s) ==
    LET a == IF s # <<>> /\ Head(s).ch = " " THEN Tail(s) ELSE s
    IN  IF a # <<>> /\ a[Len(a)].ch = " " THEN SubSeq(a, 1, Len(a) - 1) ELSE a

\* A request field that may be absent: undefined, or a string.
Undefined == [defined |-> FALSE, str |-> <<>>]
JsString(s) == [defined |-> TRUE, str |-> s]

\* !sessionId : undefined and "" are falsy.
NoSession == ""
Sessions == {"A", "B"}

\* ----------------------------------------------------------------- state

VARIABLES
    server,               \* position of initializePinecone().then(listen)
    indexes,              \* names of the indexes that exist at Pinecone
    pineconeIndex,        \* the module-level handle: "unset" or an index name
    now,                  \* Date.now(), in ms since the process started
    store,                \* the records of the index, each with its namespace
    conversationHistory,  \* the Map sessionId -> array of [question, answer]
    historyMutex,         \* the async-mutex Mutex: locked flag and FIFO waiters
    pc,                   \* per request: the await it is suspended at
    body,                 \* per request: what the client sent
    local,                \* per request: the handler's local variables
    calls,                \* per request: external calls issued so far
    sent,                 \* the last response sent, with its request (status 0: none yet)
    arrivals,             \* requests received so far
    chatLog               \* the successful /chat exchanges, in the order answered

vars == <<server, indexes, pineconeIndex, now, store, conversationHistory,
          historyMutex, pc, body, local, calls, sent, arrivals, chatLog>>

NoBody == [kind |-> "none", sessionId |-> NoSession, question |-> Undefined,
           file |-> [present |-> FALSE, mimetype |-> "", chunks |-> <<>>]]
NoLocal == [history |-> <<>>, embedding |-> 0, queriedAt |-> 0, matches |-> <<>>,
            context |-> <<>>, texts |-> <<>>, vectors |-> <<>>]
NoCalls == [parse |-> 0, embed |-> 0, query |-> 0, llm |-> 0, upsert |-> 0]
NoRes == [request |-> NoBody, calls |-> NoCalls, status |-> 0,
          body |-> [none |-> TRUE]]

Init ==
    /\ server = "listing"
    /\ indexes \in {{"other-index"}, {"other-index", IndexName}}
    /\ pineconeIndex = "unset"
    /\ now = 0
    /\ store = {}
    /\ conversationHistory = <<>>
    /\ historyMutex = [locked |-> FALSE, queue |-> <<>>]
    /\ pc = [r \in Reqs |-> "idle"]
    /\ body = [r \in Reqs |-> NoBody]
    /\ local = [r \in Reqs |-> NoLocal]
    /\ calls = [r \in Reqs |-> NoCalls]
    /\ sent = NoRes
    /\ arrivals = 0
    /\ chatLog = <<>>

\* --------------------------------------------------------------- startup

\* pinecone.listIndexes() answers: the index is there, or it has to be made.
ListIndexesReturn ==
    /\ server = "listing"
    /\ IF \E name \in indexes : name = IndexName
       THEN /\ pineconeIndex' = IndexName
            /\ server' = "initialized"
       ELSE /\ server' = "creating"
            /\ UNCHANGED pineconeIndex
    /\ UNCHANGED <<indexes, now, store, conversationHistory, historyMutex,
                   pc, body, local, calls, sent, arrivals, chatLog>>

\* pinecone.createIndex(INDEX_CONFIG) succeeds; the 60 s timer starts.
CreateIndexReturn ==
    /\ server = "creating"
    /\ indexes' = indexes \cup {IndexName}
    /\ server' = "settling"
    /\ UNCHANGED <<pineconeIndex, now, store, conversationHistory,
                   historyMutex, pc, body, local, calls, sent, arrivals, chatLog>>

\* The settling timer fires.
SettleDone ==
    /\ server = "settling"
    /\ pineconeIndex' = IndexName
    /\ server' = "initialized"
    /\ UNCHANGED <<indexes, now, store, conversationHistory, historyMutex,
                   pc, body, local, calls, sent, arrivals, chatLog>>

\* InitializeFails without process.exit(1): the error is only logged, the
\* promise of initializePinecone resolves and the server listens.
InitializeFailsNoExit ==
    /\ server \in {"listing", "creating"}
    /\ server' = "initialized"
    /\ UNCHANGED <<indexes, pineconeIndex, now, store, conversationHistory,
                   historyMutex, pc, body, local, calls, sent, arrivals, chatLog>>

\* listIndexes or createIndex rejects: console.error, process.exit(1).
InitializeFails ==
    /\ server \in {"listing", "creating"}
    /\ server' = "exited"
    /\ UNCHANGED <<indexes, pineconeIndex, now, store, conversationHistory,
                   historyMutex, pc, body, local, calls, sent, arrivals, chatLog>>

\* .then(() => app.listen(port, ...))
Listen ==
    /\ server = "initialized"
    /\ server' = "listening"
    /\ UNCHANGED <<indexes, pineconeIndex, now, store, conversationHistory,
                   historyMutex, pc, body, local, calls, sent, arrivals, chatLog>>

\* The wall clock advances to a later instant.
Tick(t) ==
    /\ server = "listening"
    /\ t > now
    /\ now' = t
    /\ UNCHANGED <<server, indexes, pineconeIndex, store, conversationHistory,
                   historyMutex, pc, body, local, calls, sent, arrivals, chatLog>>

\* ------------------------------------------------------ shared helpers

\* res.status(status).json(payload) ends the request: its slot is free again.
Answer(r, b, status, payload) ==
    /\ sent' = [request |-> b, calls |-> calls[r], status |-> status,
                body |-> payload]
    /\ body' = [body EXCEPT ![r] = NoBody]
    /\ local' = [local EXCEPT ![r] = NoLocal]
    /\ calls' = [calls EXCEPT ![r] = NoCalls]

\* The slot a new request takes: the first free one.
FreeSlot(r) == pc[r] = "idle" /\ \A q \in Reqs : q < r => pc[q] # "idle"

\* What pinecone.inference.embed may answer for n texts: it rejects, or it
\* resolves to a bare array, to an object with a data array, or to something
\* else.  The i-th item carries the vector i (index-encoded); the service
\* returns no, one or two items, which for one or two texts is fewer items
\* than texts, as many, or more.
EmbedResponses(n) ==
    {[shape |-> "rejects", items |-> <<>>], [shape |-> "other", items |-> <<>>]}
    \cup {[shape |-> sh, items |-> [i \in 1..k |-> [values |-> i]]] :
            sh \in {"array", "wrapped"}, k \in {0, 1, 2}}

\* generateEmbeddings(texts, inputType) once embed has answered: the list of
\* vectors, or the error it throws.
GenerateEmbeddings(texts, response) ==
    IF texts = <<>>
    THEN [ok |-> FALSE, values |-> <<>>,
          error |-> "Failed to generate embeddings: Texts must be a non-empty array"]
    ELSE IF response.shape = "rejects"
    THEN [ok |-> FALSE, values |-> <<>>,
          error |-> "Failed to generate embeddings: embed rejected"]
    ELSE IF response.shape \in {"array", "wrapped"}
    THEN [ok |-> TRUE, error |-> "",
          values |-> [i \in 1..Len(response.items) |-> response.items[i].values]]
    ELSE [ok |-> FALSE, values |-> <<>>,
          error |-> "Failed to generate embeddings: Invalid embedding response format"]

\* NamespaceOf without the session id: one namespace for everybody.
SharedNamespace(sessionId) == "user-"

\* `user-${sessionId}`
NamespaceOf(sessionId) == "user-" \o sessionId

\* --------------------------------------------------------- history store

\* conversationHistory.get(sessionId) || []
Get(h, sessionId) == IF sessionId \in DOMAIN h THEN h[sessionId] ELSE <<>>

\* MapSet under one key for every session.
MapSetOneKey(h, sessionId, value) ==
    [k \in DOMAIN h \cup {"A"} |-> IF k = "A" THEN value ELSE h[k]]

\* conversationHistory.set(sessionId, value)
MapSet(h, sessionId, value) ==
    [k \in DOMAIN h \cup {sessionId} |-> IF k = sessionId THEN value ELSE h[k]]

\* NewHistory without the shift(): the history keeps growing.
NewHistoryNoShift(history, question, response) ==
    Append(history, <<Slice(question, MaxTurnQuestion),
                      Slice(response, MaxTurnAnswer)>>)

\* NewHistory with pop() for shift(): beyond ten the newest turn is dropped.
NewHistoryPop(history, question, response) ==
    LET newHistory == Append(history, <<Slice(question, MaxTurnQuestion),
                                        Slice(response, MaxTurnAnswer)>>)
    IN  IF Len(newHistory) > MaxHistory
        THEN SubSeq(newHistory, 1, Len(newHistory) - 1) ELSE newHistory

\* NewHistory without the two slice() calls: the turn is stored whole.
NewHistoryNoSlice(history, question, response) ==
    LET newHistory == Append(history, <<question, response>>)
    IN  IF Len(newHistory) > MaxHistory THEN Tail(newHistory) ELSE newHistory

\* newHistory of /chat: the turn appended, the oldest dropped beyond ten.
NewHistory(history, question, response) ==
    LET newHistory == Append(history, <<Slice(question, MaxTurnQuestion),
                                        Slice(response, MaxTurnAnswer)>>)
    IN  IF Len(newHistory) > MaxHistory THEN Tail(newHistory) ELSE newHistory

\* IsLocked of a mutex that is never held: acquire() resolves at once.
NeverLocked(m) == FALSE

\* Mutex.isLocked()
IsLocked(m) == m.locked

\* historyMutex.acquire(): taken at once when free, else queued first-in
\* first-out.
MutexAcquire(m, r) ==
    IF IsLocked(m) THEN [m EXCEPT !.queue = Append(@, r)]
    ELSE [m EXCEPT !.locked = TRUE]

\* release(): the lock passes to the first waiter, or becomes free.
MutexRelease(m) ==
    IF m.queue = <<>> THEN [m EXCEPT !.locked = FALSE]
    ELSE [m EXCEPT !.queue = Tail(@)]

\* The `finally { release(); }` of /chat together with the end of request r.
ReleaseAndFinish(r) ==
    /\ historyMutex' = MutexRelease(historyMutex)
    /\ pc' = [q \in Reqs |->
                IF q = r THEN "idle"
                ELSE IF historyMutex.queue # <<>> /\ q = Head(historyMutex.queue)
                THEN "locked"
                ELSE pc[q]]

\* ------------------------------------------------------------ vector store

\* Date.now() - 604800000
Cutoff(t) == t - Window

\* FilterAccepts without the timestamp condition.
FilterSessionOnly(metadata, sessionId, cutoff) ==
    metadata.sessionId = sessionId

\* The namespace's query filter { sessionId, timestamp: { $gte: cutoff } }.
FilterAccepts(metadata, sessionId, cutoff) ==
    /\ metadata.sessionId = sessionId
    /\ metadata.timestamp >= cutoff

\* The records a query on namespace ns with that filter may return.
Matching(st, ns, sessionId, cutoff) ==
    {e \in st : e.ns = ns /\ FilterAccepts(e.metadata, sessionId, cutoff)}

\* The sequences that list every element of a finite set once.
RECURSIVE Orderings(_)
Orderings(S) ==
    IF S = {} THEN {<<>>}
    ELSE UNION {{<<x>> \o s : s \in Orderings(S \ {x})} : x \in S}

\* response.matches of a query with topK: 5.  Which records score highest,
\* and in which order they come, is the database's business: any TopK of the
\* matching records (all of them when there are no more than TopK), in any
\* order.
QueryMatches(st, ns, sessionId, cutoff) ==
    LET M == Matching(st, ns, sessionId, cutoff)
        k == IF Cardinality(M) <= TopK THEN Cardinality(M) ELSE TopK
    IN  UNION {Orderings(T) : T \in {U \in SUBSET M : Cardinality(U) = k}}

\* ------------------------------------------------------------------ /chat

\* The three checks at the top of the /chat handler: the message of the Error
\* thrown, or "" when the request passes.
ChatValidation(b) ==
    IF b.sessionId = NoSession THEN "Session ID is required"
    ELSE IF ~b.question.defined \/ Trim(b.question.str) = <<>>
    THEN "Question is required"
    ELSE IF StrLen(b.question.str) > MaxQuestion THEN "Question too long"
    ELSE ""

\* The status of the outer catch of /chat.
ChatErrorStatus == 500

\* A /chat request arrives: validation, then historyMutex.acquire().
ChatReceive(r, b) ==
    /\ server = "listening"
    /\ FreeSlot(r)
    /\ b.kind = "chat"
    /\ IF ChatValidation(b) # ""
       THEN /\ Answer(r, b, ChatErrorStatus, [error |-> ChatValidation(b)])
            /\ UNCHANGED <<pc, historyMutex>>
       ELSE /\ body' = [body EXCEPT ![r] = b]
            /\ historyMutex' = MutexAcquire(historyMutex, r)
            /\ pc' = [pc EXCEPT ![r] =
                        IF IsLocked(historyMutex) THEN "waiting" ELSE "locked"]
            /\ UNCHANGED <<local, calls, sent>>
    /\ arrivals' = arrivals + 1
    /\ UNCHANGED <<server, indexes, pineconeIndex, now, store,
                   conversationHistory, chatLog>>

\* acquire() has resolved: the handler reads the history and processQuery
\* calls generateEmbeddings([question], "query"), which calls embed.
ChatEnter(r) ==
    /\ pc[r] = "locked"
    /\ local' = [local EXCEPT ![r].history =
                    Get(conversationHistory, body[r].sessionId)]
    /\ calls' = [calls EXCEPT ![r].embed = @ + 1]
    /\ pc' = [pc EXCEPT ![r] = "chat-embed"]
    /\ UNCHANGED <<server, indexes, pineconeIndex, now, store,
                   conversationHistory, historyMutex, body, sent, arrivals, chatLog>>

\* ChatFail that also stores the history it read back under the session.
ChatFailStoresHistory(r, message) ==
    /\ Answer(r, body[r], ChatErrorStatus, [error |-> message])
    /\ ReleaseAndFinish(r)
    /\ conversationHistory' =
           MapSet(conversationHistory, body[r].sessionId, local[r].history)
    /\ UNCHANGED <<server, indexes, pineconeIndex, now, store, arrivals, chatLog>>

\* ChatFail with release() at the end of the try instead of in a finally: an
\* error skips it.
ChatFailNoRelease(r, message) ==
    /\ Answer(r, body[r], ChatErrorStatus, [error |-> message])
    /\ pc' = [pc EXCEPT ![r] = "idle"]
    /\ UNCHANGED <<server, indexes, pineconeIndex, now, store,
                   conversationHistory, historyMutex, arrivals, chatLog>>

\* An error leaves the inner try of /chat: release() in the finally, then
\* the outer catch answers.
ChatFail(r, message) ==
    /\ Answer(r, body[r], ChatErrorStatus, [error |-> message])
    /\ ReleaseAndFinish(r)
    /\ UNCHANGED <<server, indexes, pineconeIndex, now, store,
                   conversationHistory, arrivals, chatLog>>

\* embed has answered the question's embedding call.  On success
\* `const [embedding] = ...` takes the first vector (0 stands for undefined)
\* and the namespace query is issued, its filter computed from Date.now().
ChatEmbedReturn(r, response) ==
    /\ pc[r] = "chat-embed"
    /\ LET e == GenerateEmbeddings(<<body[r].question.str>>, response)
       IN  IF ~e.ok THEN ChatFail(r, "Failed to process query")
           ELSE /\ local' = [local EXCEPT
                       ![r].embedding = IF e.values = <<>> THEN 0 ELSE e.values[1],
                       ![r].queriedAt = now]
                /\ calls' = [calls EXCEPT ![r].query = @ + 1]
                /\ pc' = [pc EXCEPT ![r] = "chat-query"]
                /\ UNCHANGED <<server, indexes, pineconeIndex, now, store,
                               conversationHistory, historyMutex, body, sent, arrivals, chatLog>>

\* ChatQueryFails with one retry: the first rejection issues the query again.
ChatQueryRetries(r) ==
    /\ pc[r] = "chat-query"
    /\ IF calls[r].query < 2
       THEN /\ calls' = [calls EXCEPT ![r].query = @ + 1]
            /\ UNCHANGED <<server, indexes, pineconeIndex, now, store,
                           conversationHistory, historyMutex, pc, body, local,
                           sent, arrivals, chatLog>>
       ELSE ChatFail(r, "Failed to process query")

\* The namespace query rejects (always so when it was given no vector).
ChatQueryFails(r) ==
    /\ pc[r] = "chat-query"
    /\ ChatFail(r, "Failed to process query")

\* ChatQueryReturn treating a query without matches as an error.
ChatQueryReturnNeedsMatches(r) ==
    /\ pc[r] = "chat-query"
    /\ local[r].embedding # 0
    /\ \E matches \in QueryMatches(store, NamespaceOf(body[r].sessionId),
                                   body[r].sessionId,
                                   Cutoff(local[r].queriedAt)) :
          /\ matches # <<>>
          /\ local' = [local EXCEPT
                ![r].matches = matches,
                ![r].context = [i \in 1..Len(matches) |-> matches[i].metadata.text]]
    /\ calls' = [calls EXCEPT ![r].llm = @ + 1]
    /\ pc' = [pc EXCEPT ![r] = "chat-llm"]
    /\ UNCHANGED <<server, indexes, pineconeIndex, now, store,
                   conversationHistory, historyMutex, body, sent, arrivals, chatLog>>

\* The namespace query resolves: the context is the matches' texts, and
\* generateResponse posts the completion request with context and history.
ChatQueryReturn(r) ==
    /\ pc[r] = "chat-query"
    /\ local[r].embedding # 0
    /\ \E matches \in QueryMatches(store, NamespaceOf(body[r].sessionId),
                                   body[r].sessionId,
                                   Cutoff(local[r].queriedAt)) :
          local' = [local EXCEPT
              ![r].matches = matches,
              ![r].context = [i \in 1..Len(matches) |-> matches[i].metadata.text]]
    /\ calls' = [calls EXCEPT ![r].llm = @ + 1]
    /\ pc' = [pc EXCEPT ![r] = "chat-llm"]
    /\ UNCHANGED <<server, indexes, pineconeIndex, now, store,
                   conversationHistory, historyMutex, body, sent, arrivals, chatLog>>

\* The completion request fails, or its payload has no choices[0].message:
\* generateResponse throws.
ChatLlmFails(r) ==
    /\ pc[r] = "chat-llm"
    /\ ChatFail(r, "Failed to generate response")

\* The completion arrives.  A content that is no string makes response.slice
\* throw; otherwise the turn is stored and the request answered.
ChatLlmReturn(r, content) ==
    /\ pc[r] = "chat-llm"
    /\ IF ~content.defined
       THEN ChatFail(r, "Cannot read properties of undefined (reading 'slice')")
       ELSE /\ conversationHistory' =
                  MapSet(conversationHistory, body[r].sessionId,
                         NewHistory(local[r].history, body[r].question.str,
                                    content.str))
            /\ Answer(r, body[r], 200,
                      [response |-> content.str, sessionId |-> body[r].sessionId])
            /\ chatLog' = Append(chatLog, [sessionId |-> body[r].sessionId,
                                           question |-> body[r].question.str,
                                           response |-> content.str])
            /\ ReleaseAndFinish(r)
            /\ UNCHANGED <<server, indexes, pineconeIndex, now, store,
                           arrivals>>

\* ---------------------------------------------------------------- /upload

AllowedTypes ==
    {"text/plain", "application/pdf", "text/csv", "application/vnd.ms-excel",
     "application/vnd.openxmlformats-officedocument.wordprocessingml.document"}

\* UploadValidation without the check of the session id.
UploadValidationNoSession(b) ==
    IF ~b.file.present THEN "No file uploaded"
    ELSE IF b.file.mimetype \notin AllowedTypes
    THEN "Invalid file type. Only TXT, PDF, CSV, and DOCX are allowed"
    ELSE ""

\* The checks at the top of the /upload handler: the message of the Error
\* thrown, or "" when the request passes.
UploadValidation(b) ==
    IF ~b.file.present THEN "No file uploaded"
    ELSE IF b.sessionId = NoSession THEN "Session ID is required"
    ELSE IF b.file.mimetype \notin AllowedTypes
    THEN "Invalid file type. Only TXT, PDF, CSV, and DOCX are allowed"
    ELSE ""

\* The status of the catch of /upload.
UploadErrorStatus == 400

\* The end of an /upload request.
UploadFinish(r, b, status, payload) ==
    /\ Answer(r, b, status, payload)
    /\ pc' = [pc EXCEPT ![r] = "idle"]

\* An /upload request arrives: validation, then processDocument is awaited.
UploadReceive(r, b) ==
    /\ server = "listening"
    /\ FreeSlot(r)
    /\ b.kind = "upload"
    /\ arrivals' = arrivals + 1
    /\ IF UploadValidation(b) # ""
       THEN UploadFinish(r, b, UploadErrorStatus,
                         [success |-> FALSE, error |-> UploadValidation(b)])
       ELSE /\ body' = [body EXCEPT ![r] = b]
            /\ calls' = [calls EXCEPT ![r].parse = @ + 1]
            /\ pc' = [pc EXCEPT ![r] = "upload-parse"]
            /\ UNCHANGED <<local, sent>>
    /\ UNCHANGED <<server, indexes, pineconeIndex, now, store,
                   conversationHistory, historyMutex, chatLog>>

\* processDocument(buffer, mimetype): the documents the splitter makes of the
\* file's text, or the error thrown.  A file is given by the chunks its text
\* splits into; a file without readable text has none.
ProcessDocument(file) ==
    IF file.mimetype \notin AllowedTypes
    THEN [ok |-> FALSE, docs |-> <<>>,
          error |-> "Failed to parse document: Unsupported file type"]
    ELSE IF file.chunks = <<>>
    THEN [ok |-> FALSE, docs |-> <<>>,
          error |-> "Failed to parse document: Document contains no readable text"]
    ELSE [ok |-> TRUE, docs |-> file.chunks, error |-> ""]

\* processDocument has settled.  If it threw, or returned no documents, the
\* request fails; otherwise the documents go to storeDocumentChunks, whose
\* call of generateEmbeddings(texts, "passage") calls embed.
UploadParsed(r) ==
    /\ pc[r] = "upload-parse"
    /\ IF ~ProcessDocument(body[r].file).ok
       THEN UploadFinish(r, body[r], UploadErrorStatus,
                   [success |-> FALSE,
                    error |-> ProcessDocument(body[r].file).error])
       ELSE IF ProcessDocument(body[r].file).docs = <<>>
       THEN UploadFinish(r, body[r], UploadErrorStatus,
                   [success |-> FALSE,
                    error |-> "No valid text extracted from document"])
       ELSE /\ local' = [local EXCEPT
                            ![r].texts = ProcessDocument(body[r].file).docs]
            /\ calls' = [calls EXCEPT ![r].embed = @ + 1]
            /\ pc' = [pc EXCEPT ![r] = "upload-embed"]
            /\ UNCHANGED <<body, sent>>
    /\ UNCHANGED <<server, indexes, pineconeIndex, now, store,
                   conversationHistory, historyMutex, arrivals, chatLog>>

\* The instants the clock shows during a run: the start, exactly the
\* retrieval window later, and 1 ms after that.
Clock == {0, Window, Window + 1}

\* What n successive reads of Date.now() may show from the instant t on.
RECURSIVE ClockReads(_, _)
ClockReads(t, n) ==
    IF n = 0 THEN {<<>>}
    ELSE UNION {{<<c>> \o s : s \in ClockReads(c, n - 1)} :
                    c \in {d \in Clock : d >= t}}

\* `doc-${sessionId}-${Date.now()}-${i}`, i counted from 0
RecordId(sessionId, t, i) ==
    "doc-" \o sessionId \o "-" \o ToString(t) \o "-" \o ToString(i)

\* embeddings.map((values, i) => ({ id, values, metadata })) of
\* storeDocumentChunks; texts[i] is undefined beyond the texts.  Each record
\* reads Date.now() twice, for its id and then for its timestamp: reads is
\* what the clock showed at these reads, in the order they were made.
Vectors(embeddings, texts, sessionId, reads) ==
    [j \in 1..Len(embeddings) |->
        [id |-> RecordId(sessionId, reads[2 * j - 1], j - 1),
         values |-> embeddings[j],
         metadata |-> [text |-> IF j <= Len(texts) THEN JsString(texts[j])
                                ELSE Undefined,
                       timestamp |-> reads[2 * j],
                       sessionId |-> sessionId]]]

\* namespace(ns).upsert(vectors): a record replaces the one with its id.
Upsert(st, ns, vectors) ==
    LET new == {[ns |-> ns, id |-> vectors[j].id, values |-> vectors[j].values,
                 metadata |-> vectors[j].metadata] : j \in 1..Len(vectors)}
    IN  {e \in st : ~(e.ns = ns /\ \E n \in new : n.id = e.id)} \cup new

\* embed has answered the chunks' embedding call; on success the vectors are
\* built, the clock moving on as it may while they are, and the upsert is
\* issued.
UploadEmbedReturn(r, response) ==
    /\ pc[r] = "upload-embed"
    /\ LET e == GenerateEmbeddings(local[r].texts, response)
       IN  IF ~e.ok
           THEN /\ UploadFinish(r, body[r], UploadErrorStatus,
                       [success |-> FALSE, error |-> "Failed to store document"])
                /\ UNCHANGED now
           ELSE /\ \E reads \in ClockReads(now, 2 * Len(e.values)) :
                     /\ local' = [local EXCEPT ![r].vectors =
                            Vectors(e.values, local[r].texts,
                                    body[r].sessionId, reads)]
                     /\ now' = IF reads = <<>> THEN now ELSE reads[Len(reads)]
                /\ calls' = [calls EXCEPT ![r].upsert = @ + 1]
                /\ pc' = [pc EXCEPT ![r] = "upload-upsert"]
                /\ UNCHANGED <<body, sent>>
    /\ UNCHANGED <<server, indexes, pineconeIndex, store,
                   conversationHistory, historyMutex, arrivals, chatLog>>

\* The upsert rejects: nothing is written.
UploadUpsertFails(r) ==
    /\ pc[r] = "upload-upsert"
    /\ UploadFinish(r, body[r], UploadErrorStatus,
                    [success |-> FALSE, error |-> "Failed to store document"])
    /\ UNCHANGED <<server, indexes, pineconeIndex, now, store,
                   conversationHistory, historyMutex, arrivals, chatLog>>

\* The upsert resolves: the records are in the session's namespace.
UploadUpsertReturn(r) ==
    /\ pc[r] = "upload-upsert"
    /\ store' = Upsert(store, NamespaceOf(body[r].sessionId), local[r].vectors)
    /\ UploadFinish(r, body[r], 200,
                    [success |-> TRUE, message |-> "Document processed successfully"])
    /\ UNCHANGED <<server, indexes, pineconeIndex, now,
                   conversationHistory, historyMutex, arrivals, chatLog>>

\* ------------------------------------------------------------ environment

ShortQuestion == JsString(Str("q", 3))
LongQuestion == JsString(Str("q", 600))

ChatBody(sessionId, question) ==
    [NoBody EXCEPT !.kind = "chat", !.sessionId = sessionId, !.question = question]

\* The /chat requests clients send: valid ones on two sessions, and one for
\* each way of failing validation.
ChatBodies ==
    {ChatBody("A", ShortQuestion), ChatBody("B", ShortQuestion),
     ChatBody("A", LongQuestion),
     ChatBody(NoSession, ShortQuestion),
     ChatBody("A", Undefined),
     ChatBody("A", JsString(Str(" ", 2))),
     ChatBody("B", JsString(Str("q", 1001)))}

UploadBody(sessionId, present, mimetype, chunks) ==
    [NoBody EXCEPT !.kind = "upload", !.sessionId = sessionId,
                   !.file = [present |-> present, mimetype |-> mimetype,
                             chunks |-> chunks]]

\* The /upload requests clients send.  A file is given by its MIME type and
\* the chunks processDocument makes of it (none: no readable text).
UploadBodies ==
    {UploadBody("A", TRUE, "text/plain", <<Str("x", 900)>>),
     UploadBody("A", TRUE, "text/csv", <<Str("z", 400)>>),
     UploadBody("B", TRUE, "application/pdf", <<Str("x", 1000), Str("y", 300)>>),
     UploadBody("A", FALSE, "", <<>>),
     UploadBody(NoSession, TRUE, "text/plain", <<Str("x", 900)>>),
     UploadBody("A", TRUE, "image/png", <<Str("x", 900)>>),
     UploadBody("B", TRUE, "text/csv", <<>>)}

\* What the completion endpoint may put in choices[0].message.content.
LlmContents == {JsString(Str("r", 3)), JsString(Str("r", 2500)), Undefined}

\* ---------------------------------------------------------- specification

Startup ==
    \/ ListIndexesReturn
    \/ CreateIndexReturn
    \/ SettleDone
    \/ InitializeFails
    \/ Listen

ChatSteps(r) ==
    \/ ChatEnter(r)
    \/ \E response \in EmbedResponses(1) : ChatEmbedReturn(r, response)
    \/ ChatQueryFails(r)
    \/ ChatQueryReturn(r)
    \/ ChatLlmFails(r)
    \/ \E content \in LlmContents : ChatLlmReturn(r, content)

UploadSteps(r) ==
    \/ UploadParsed(r)
    \/ \E response \in EmbedResponses(Len(local[r].texts)) :
          UploadEmbedReturn(r, response)
    \/ UploadUpsertFails(r)
    \/ UploadUpsertReturn(r)

Next ==
    \/ Startup
    \/ \E t \in Clock : Tick(t)
    \/ /\ arrivals < MaxRequests
       /\ \E r \in Reqs : \/ \E b \in ChatBodies : ChatReceive(r, b)
                          \/ \E b \in UploadBodies : UploadReceive(r, b)
    \/ \E r \in Reqs : ChatSteps(r) \/ UploadSteps(r)

Spec == Init /\ [][Next]_vars

\* The chat-only runs: MaxChats valid /chat requests on one session, at most
\* two in flight, every external service answering as it may.
ChatNext ==
    \/ Startup
    \/ /\ arrivals < MaxChats
       /\ \E r \in Reqs : ChatReceive(r, ChatBody("A", ShortQuestion))
    \/ \E r \in Reqs : ChatSteps(r)

ChatSpec == Init /\ [][ChatNext]_vars

\* Runs in which the external calls of the request in slot 1 may stay
\* unanswered for ever, while the event loop keeps running every continuation
\* that is ready and every external call of the other requests is answered.
StuckSpec ==
    /\ Init /\ [][Next]_vars
    /\ WF_vars(Startup)
    /\ WF_vars(ChatEnter(1) \/ UploadParsed(1))
    /\ \A r \in Reqs \ {1} : WF_vars(ChatSteps(r) \/ UploadSteps(r))

\* The chats of two sessions, valid and invalid, at most two in flight.
FairChatNext ==
    \/ Startup
    \/ /\ arrivals < MaxRequests
       /\ \E r \in Reqs : \E b \in ChatBodies : ChatReceive(r, b)
    \/ \E r \in Reqs : ChatSteps(r)

\* Runs of chats in which every external call is eventually answered, by a
\* result or by a failure, and the event loop runs every continuation that
\* is ready.
FairChatSpec ==
    /\ Init /\ [][FairChatNext]_vars
    /\ WF_vars(Startup)
    /\ \A r \in Reqs : WF_vars(ChatSteps(r))

\* ================================================================ claims

\* The requests inside the critical section of /chat, past the history read.
InChat(r) == pc[r] \in {"chat-embed", "chat-query", "chat-llm"}

\* The successful exchanges of one session, oldest first.
ExchangesOf(sessionId) == SelectSeq(chatLog, LAMBDA e : e.sessionId = sessionId)

\* The turn a successful exchange leaves in the history.
TurnOf(e) == <<Slice(e.question, 500), Slice(e.response, 2000)>>

\* The last min(n, 10) turns of a session's n successful exchanges.
LastTurns(sessionId) ==
    LET t == ExchangesOf(sessionId)
        n == Len(t)
        k == IF n < 10 THEN n ELSE 10
    IN  [i \in 1..k |-> TurnOf(t[n - k + i])]

\* C1: no lost update.  Chats are serialized around the read-modify-append of
\* the history: at most one request is between its read and its write, the
\* history it read is still the stored one (so its write builds on the turn of
\* every chat completed before it), and after n <= 10 successful chats on a
\* session the session's history has exactly n turns.
C1_NoLostUpdate ==
    /\ \A r, q \in Reqs : InChat(r) /\ InChat(q) => r = q
    /\ \A r \in Reqs :
          InChat(r) => local[r].history =
                       Get(conversationHistory, body[r].sessionId)
    /\ \A s \in Sessions :
          Len(ExchangesOf(s)) <= 10 =>
              Len(Get(conversationHistory, s)) = Len(ExchangesOf(s))

\* Two chats on one session in flight: one has read a history of two turns
\* and awaits the LLM while the other awaits the lock.
C1_Witness ==
    \E r, q \in Reqs :
        /\ pc[r] = "chat-llm" /\ pc[q] = "waiting"
        /\ body[r].sessionId = body[q].sessionId
        /\ Len(local[r].history) = 2
        /\ Len(ExchangesOf(body[r].sessionId)) = 2

\* C2: the history stored for a session never has more than 10 turns.
C2_HistoryBounded ==
    \A s \in DOMAIN conversationHistory : Len(conversationHistory[s]) <= 10

\* An 11th chat has completed on a session whose history holds 10 turns.
C2_Witness ==
    \E s \in DOMAIN conversationHistory :
        Len(ExchangesOf(s)) = 11 /\ Len(conversationHistory[s]) = 10

\* C3: first-in first-out eviction.  The history stored for a session is the
\* last min(n, 10) turns of the session's n successful chats, in the order
\* they completed; and a chat that completes on a history of 10 turns removes
\* the oldest turn, keeps the other 9 in order and puts its own turn last.
C3_FifoEviction ==
    /\ [](\A s \in Sessions : Get(conversationHistory, s) = LastTurns(s))
    /\ [][\A s \in Sessions :
            (/\ Len(Get(conversationHistory, s)) = 10
             /\ Len(ExchangesOf(s)') = Len(ExchangesOf(s)) + 1)
            => /\ SubSeq(Get(conversationHistory', s), 1, 9)
                      = Tail(Get(conversationHistory, s))
               /\ Get(conversationHistory', s)[10]
                      = TurnOf(chatLog'[Len(chatLog')])]_vars

\* The 11th turn has evicted the 1st, which differed from the 2nd: the stored
\* history now starts with the 2nd turn and ends with the 11th.
C3_Witness ==
    \E s \in DOMAIN conversationHistory :
        LET t == ExchangesOf(s)
        IN  /\ Len(t) = 11
            /\ TurnOf(t[1]) # TurnOf(t[2])
            /\ conversationHistory[s][1] = TurnOf(t[2])
            /\ conversationHistory[s][10] = TurnOf(t[11])

\* C4: history isolation.  The history a chat on session A hands to
\* generateResponse is made of the turns of A's own earlier chats, and a step
\* changes the stored history of a session only when a chat on that very
\* session completes.
C4_HistoryIsolation ==
    /\ [](\A r \in Reqs :
            InChat(r) => local[r].history = LastTurns(body[r].sessionId))
    /\ [][\A s \in Sessions :
            (\/ Get(conversationHistory', s) # Get(conversationHistory, s)
             \/ (s \in DOMAIN conversationHistory')
                    # (s \in DOMAIN conversationHistory))
            => \E r \in Reqs : /\ pc[r] = "chat-llm" /\ pc'[r] = "idle"
                               /\ body[r].sessionId = s]_vars

\* A chat on A has completed after one on B: each session holds its own turn.
C4_Witness ==
    /\ Len(chatLog) = 2
    /\ chatLog[1].sessionId = "B" /\ chatLog[2].sessionId = "A"
    /\ DOMAIN conversationHistory = {"A", "B"}
    /\ conversationHistory["B"] = <<TurnOf(chatLog[1])>>
    /\ conversationHistory["A"] = <<TurnOf(chatLog[2])>>

\* C5: vector isolation.  Every record sits in the namespace of the session
\* that uploaded it, and the matches a query returns to a chat all come from
\* the chat's own session and namespace.
C5_VectorIsolation ==
    /\ \A e \in store : e.ns = "user-" \o e.metadata.sessionId
    /\ \A r \in Reqs :
          pc[r] = "chat-llm" =>
              \A i \in 1..Len(local[r].matches) :
                  /\ local[r].matches[i].metadata.sessionId = body[r].sessionId
                  /\ local[r].matches[i].ns = "user-" \o body[r].sessionId

\* A query of another session, with the very vector of a stored record, has
\* returned without that record.
C5_Witness ==
    \E r \in Reqs : \E e \in store :
        /\ pc[r] = "chat-llm"
        /\ e.metadata.sessionId # body[r].sessionId
        /\ e.values = local[r].embedding
        /\ \A i \in 1..Len(local[r].matches) : local[r].matches[i] # e

\* C6: time window.  Every record a query returns was ingested no more than
\* 604800000 ms before the query was made; and no step takes a record out of
\* the store, so a record that has aged out is still there.
C6_TimeWindow ==
    /\ [](\A r \in Reqs :
            pc[r] = "chat-llm" =>
                \A i \in 1..Len(local[r].matches) :
                    local[r].queriedAt - local[r].matches[i].metadata.timestamp
                        <= 604800000)
    /\ [][\A e \in store :
            \E f \in store' : f.ns = e.ns /\ f.id = e.id]_vars

\* A query has returned without a record of its own session that is older
\* than the window and still in the store.
C6_Witness ==
    \E r \in Reqs : \E e \in store :
        /\ pc[r] = "chat-llm"
        /\ e.metadata.sessionId = body[r].sessionId
        /\ e.ns = "user-" \o body[r].sessionId
        /\ local[r].queriedAt - e.metadata.timestamp > 604800000
        /\ \A i \in 1..Len(local[r].matches) : local[r].matches[i] # e

\* C7: a stuck external call stalls only the request that issued it.  Stated
\* for the case the claim names: whatever becomes of the external calls of the
\* request in slot 1, a /chat request on another session is answered.
C7_OtherSessionChatAnswered ==
    \A r \in Reqs \ {1} :
        (/\ body[r].kind = "chat" /\ pc[r] # "idle"
         /\ body[1].kind = "chat" /\ body[1].sessionId # body[r].sessionId)
        ~> (pc[r] = "idle")

\* C8: a /chat request whose retrieval or completion fails is answered with
\* an error payload and leaves the history map as it was.  A request leaves
\* the critical section with a response payload only from the completed LLM
\* call; every other way out carries an error payload, answers that request,
\* and changes neither a stored history nor the set of sessions stored.
C8_FailedChatKeepsHistory ==
    [][\A r \in Reqs :
         (InChat(r) /\ pc'[r] = "idle") =>
             /\ sent'.request = body[r]
             /\ "response" \in DOMAIN sent'.body => pc[r] = "chat-llm"
             /\ "response" \notin DOMAIN sent'.body =>
                    /\ "error" \in DOMAIN sent'.body
                    /\ sent'.status >= 400
                    /\ conversationHistory' = conversationHistory]_vars

\* A chat on a session never seen has just failed in retrieval, while another
\* session has a history: the failed session has no entry.
C8_Witness ==
    /\ sent.request.kind = "chat"
    /\ sent.calls.embed = 1 /\ sent.calls.llm = 0
    /\ "error" \in DOMAIN sent.body
    /\ DOMAIN conversationHistory # {}
    /\ sent.request.sessionId \notin DOMAIN conversationHistory

\* C9: a /chat request rejected for invalid input is answered with a 4xx
\* status and a message, before any external call.
C9_InvalidChatIs4xx ==
    (sent.request.kind = "chat" /\ ChatValidation(sent.request) # "") =>
        /\ sent.status \in 400..499
        /\ "error" \in DOMAIN sent.body
        /\ sent.calls = NoCalls

\* C10: an /upload request that fails in the embedding call or in the upsert
\* is answered with a 5xx status and success: false.
C10_FailedStoreIs5xx ==
    (/\ sent.request.kind = "upload"
     /\ sent.calls.embed = 1
     /\ "error" \in DOMAIN sent.body) =>
        /\ sent.status \in 500..599
        /\ sent.body.success = FALSE

\* An /upload request that must be rejected on arrival: no file, no session
\* id, or a MIME type outside the five accepted ones.
InvalidUpload(b) ==
    /\ b.kind = "upload"
    /\ \/ ~b.file.present
       \/ b.sessionId = ""
       \/ b.file.mimetype \notin
            {"text/plain", "application/pdf", "text/csv",
             "application/vnd.ms-excel",
             "application/vnd.openxmlformats-officedocument.wordprocessingml.document"}

\* C11: an /upload request that fails validation is answered success: false
\* on arrival, having called neither processDocument nor the embedding
\* service nor the vector store; it never becomes a request in flight, and
\* the step that takes it in leaves the vector store as it was.
C11_InvalidUploadRejectedEarly ==
    /\ [](/\ InvalidUpload(sent.request) =>
              (/\ sent.body.success = FALSE
               /\ sent.calls.parse = 0 /\ sent.calls.embed = 0
               /\ sent.calls.upsert = 0 /\ sent.calls.query = 0)
          /\ \A r \in Reqs : ~InvalidUpload(body[r])
          /\ \A e \in store : e.metadata.sessionId # "")
    /\ [][(arrivals' = arrivals + 1 /\ pc' = pc) => store' = store]_vars

\* An upload of an image has just been rejected while the store holds the
\* records of an earlier upload.
C11_Witness ==
    /\ InvalidUpload(sent.request)
    /\ sent.request.file.present
    /\ sent.request.sessionId # ""
    /\ sent.body.success = FALSE
    /\ store # {}

\* C12: no partial success.  An /upload answered success: true has left, in
\* the namespace of its session, a record for every chunk of its document.
C12_SuccessMeansEveryChunkStored ==
    (/\ sent.request.kind = "upload"
     /\ "success" \in DOMAIN sent.body
     /\ sent.body.success = TRUE) =>
        \A i \in 1..Len(sent.request.file.chunks) :
            \E e \in store :
                /\ e.ns = "user-" \o sent.request.sessionId
                /\ e.metadata.text = JsString(sent.request.file.chunks[i])

\* The records the query of request r may return: those of its session's
\* namespace, tagged with its session, no older than seven days at the
\* instant the query was issued.
Eligible(r) ==
    {e \in store : /\ e.ns = "user-" \o body[r].sessionId
                   /\ e.metadata.sessionId = body[r].sessionId
                   /\ e.metadata.timestamp >= local[r].queriedAt - 604800000}

\* C13: a chat whose session has no stored vector, or none inside the seven
\* days, is not an error.  Its query can resolve; when it does the context is
\* the empty list and the completion call is issued; and when that call
\* delivers a string the turn is appended to the session's history and the
\* chat answered, as for any other chat.
C13_EmptyRetrievalIsNotAnError ==
    /\ [](\A r \in Reqs :
            (pc[r] = "chat-query" /\ local[r].embedding # 0
                /\ Eligible(r) = {}) => ENABLED ChatQueryReturn(r))
    /\ [][\A r \in Reqs :
            /\ (pc[r] = "chat-query" /\ pc'[r] = "chat-llm"
                    /\ Eligible(r) = {}) =>
                    /\ local'[r].context = <<>>
                    /\ calls'[r].llm = 1
            /\ (pc[r] = "chat-llm" /\ local[r].context = <<>>
                    /\ pc'[r] = "idle" /\ "response" \in DOMAIN sent'.body) =>
                    LET s == body[r].sessionId
                        old == Get(conversationHistory, s)
                        new == Get(conversationHistory', s)
                    IN  /\ sent'.status = 200
                        /\ Len(new) = (IF Len(old) < 10 THEN Len(old) + 1 ELSE 10)
                        /\ new[Len(new)][1] = Slice(body[r].question.str, 500)
                        /\ new[Len(new)][2] = Slice(sent'.body.response, 2000)
                        /\ \A i \in 1..(Len(new) - 1) :
                              new[i] = old[Len(old) + 1 - Len(new) + i]]_vars

\* A chat has been answered and its turn stored while the vector store is
\* still empty.
C13_Witness ==
    /\ store = {}
    /\ sent.request.kind = "chat"
    /\ sent.status = 200
    /\ Len(Get(conversationHistory, sent.request.sessionId)) = 1
    /\ conversationHistory[sent.request.sessionId][1][2] = sent.body.response

\* p is a prefix of s, both in run-length form.
RECURSIVE IsPrefix(_, _)
IsPrefix(p, s) ==
    IF p = <<>> THEN TRUE
    ELSE IF s = <<>> \/ Head(p).ch # Head(s).ch THEN FALSE
    ELSE IF Head(p).n < Head(s).n THEN Len(p) = 1
    ELSE IF Head(p).n = Head(s).n THEN IsPrefix(Tail(p), Tail(s))
    ELSE FALSE

\* C14: every turn in the history store has a question of at most 500
\* characters and an answer of at most 2000, the question a prefix of the
\* question of the chat that made the turn and the answer a prefix of the
\* completion that chat received.
C14_TurnsTruncated ==
    \A s \in DOMAIN conversationHistory :
        LET h == conversationHistory[s]
            t == ExchangesOf(s)
        IN  /\ Len(h) <= Len(t)
            /\ \A i \in 1..Len(h) :
                  LET e == t[Len(t) - Len(h) + i]
                  IN  /\ StrLen(h[i][1]) <= 500
                      /\ StrLen(h[i][2]) <= 2000
                      /\ IsPrefix(h[i][1], e.question)
                      /\ IsPrefix(h[i][2], e.response)

\* A stored turn whose question and answer were both cut: 500 characters of
\* a question of 600, 2000 of an answer of 2500.
C14_Witness ==
    \E s \in DOMAIN conversationHistory :
        \E i \in 1..Len(conversationHistory[s]) :
            LET e == ExchangesOf(s)[i]
                turn == conversationHistory[s][i]
            IN  /\ StrLen(e.question) = 600 /\ StrLen(turn[1]) = 500
                /\ StrLen(e.response) = 2500 /\ StrLen(turn[2]) = 2000

\* C15: generateEmbeddings returns one vector per text, in the order of the
\* texts.  The vectors an upload is about to upsert are what
\* generateEmbeddings returned for its chunks: there are as many as chunks,
\* and the j-th is the embedding of the j-th chunk.
C15_OneVectorPerText ==
    \A r \in Reqs :
        pc[r] = "upload-upsert" =>
            /\ Len(local[r].vectors) = Len(local[r].texts)
            /\ \A j \in 1..Len(local[r].vectors) : local[r].vectors[j].values = j

\* C16: record ids are unique per chunk, so no upsert overwrites a record an
\* earlier upload wrote: a record once in the store stays in it.
C16_NoRecordOverwritten ==
    [][\A e \in store : e \in store']_vars

\* C17: processQuery issues the namespace query only when the embedding of
\* the question came back as exactly one vector.  Whenever embed answers the
\* question with an array of zero or of several vectors, the chat ends with
\* the retrieval error and no query has been issued.
C17_QueryOnlyWithOneVector ==
    [][\A r \in Reqs : \A response \in EmbedResponses(1) :
          (/\ response.shape \in {"array", "wrapped"}
           /\ Len(response.items) # 1
           /\ ChatEmbedReturn(r, response)) =>
              /\ pc'[r] = "idle"
              /\ sent'.body = [error |-> "Failed to process query"]
              /\ sent'.calls.query = 0]_vars

\* The requests that hold the history mutex.
Holds(r) == pc[r] = "locked" \/ InChat(r)

\* C18: the history mutex is released on every exit of the critical section
\* of /chat.  The mutex is locked exactly while some request holds it and its
\* queue is exactly the waiting requests; the step that ends a holder,
\* answered or failed, frees the mutex or hands it to the first waiter; and
\* when every external call is eventually answered, every waiting chat
\* eventually acquires the mutex and every chat is eventually answered.
C18_MutexAlwaysReleased ==
    /\ [](/\ historyMutex.locked <=> (\E r \in Reqs : Holds(r))
          /\ \A r \in Reqs :
                pc[r] = "waiting" <=>
                   (\E i \in 1..Len(historyMutex.queue) : historyMutex.queue[i] = r))
    /\ [][\A r \in Reqs :
            (Holds(r) /\ pc'[r] = "idle") =>
                IF historyMutex.queue = <<>>
                THEN historyMutex' = [locked |-> FALSE, queue |-> <<>>]
                ELSE /\ pc'[Head(historyMutex.queue)] = "locked"
                     /\ historyMutex'.queue = Tail(historyMutex.queue)]_vars
    /\ \A r \in Reqs :
          /\ (pc[r] = "waiting") ~> (pc[r] = "locked")
          /\ (pc[r] = "waiting" \/ Holds(r)) ~> (pc[r] = "idle")

\* A chat has failed inside the critical section and the mutex is free.
C18_Witness ==
    /\ sent.request.kind = "chat"
    /\ "error" \in DOMAIN sent.body
    /\ sent.calls.embed = 1
    /\ historyMutex = [locked |-> FALSE, queue |-> <<>>]

\* C19: fail-fast startup.  Requests are taken only while the server
\* listens, and it listens only with the index provisioned and pineconeIndex
\* set; a process that exited on a provisioning failure has served nothing
\* and stays exited; and the index is created only when no index of the
\* configured name exists.
C19_FailFastStartup ==
    /\ [](/\ (arrivals > 0 \/ \E r \in Reqs : pc[r] # "idle") =>
                 server = "listening"
          /\ server = "listening" =>
                 (pineconeIndex # "unset" /\ pineconeIndex \in indexes)
          /\ server = "exited" => (arrivals = 0 /\ sent.status = 0))
    /\ [][/\ server = "exited" => server' = "exited"
          /\ indexes' # indexes =>
                (/\ \A name \in indexes : name # "doc-chat-index"
                 /\ indexes' = indexes \cup {"doc-chat-index"})]_vars

\* The server has taken a request, with the index it found or created.
C19_Witness ==
    /\ server = "listening"
    /\ arrivals > 0
    /\ pineconeIndex \in indexes

\* The calls c of one request are at most one of each kind, each made only
\* after the one before it: embed, then query, then the completion for a
\* chat; processDocument, then embed, then upsert for an upload.
NoRetry(kind, c) ==
    /\ c.parse <= 1 /\ c.embed <= 1 /\ c.query <= 1
    /\ c.llm <= 1 /\ c.upsert <= 1
    /\ c.llm <= c.query /\ c.query <= c.embed /\ c.upsert <= c.embed
    /\ kind = "chat" => (c.parse = 0 /\ c.upsert = 0)
    /\ kind = "upload" => (c.query = 0 /\ c.llm = 0 /\ c.embed <= c.parse)

\* C20: no retries.  A request makes at most one call of each external
\* service, and the step in which a request fails makes no call: the calls
\* reported with the error are those made before it, and the request is over.
C20_NoRetries ==
    /\ [](/\ \A r \in Reqs : NoRetry(body[r].kind, calls[r])
          /\ NoRetry(sent.request.kind, sent.calls))
    /\ [][\A r \in Reqs :
            (pc[r] # "idle" /\ pc'[r] = "idle" /\ "error" \in DOMAIN sent'.body) =>
                /\ sent'.calls = calls[r]
                /\ calls'[r] = [parse |-> 0, embed |-> 0, query |-> 0,
                                 llm |-> 0, upsert |-> 0]]_vars

\* A chat has failed in the completion call after one call of each service.
C20_Witness ==
    /\ sent.request.kind = "chat"
    /\ "error" \in DOMAIN sent.body
    /\ sent.calls.embed = 1 /\ sent.calls.query = 1 /\ sent.calls.llm = 1

====
